---- MODULE Spec2Model ----
(***************************************************************************)
(* Model of the PortalBox access-control service: the finite state machine *)
(* of portal_fsm.py, the supervisor loop and input assembler of service.py *)
(* and the authorization rule of Database.py.                              *)
(*                                                                         *)
(* One pass of the supervisor loop is two steps: get_inputs builds the     *)
(* input tuple, then the FSM object is called once.  A call runs the       *)
(* __call__ body of the class the object had when the call started; every  *)
(* next_state inside it rebinds the class and runs the new on_enter, and   *)
(* the body then keeps executing its remaining statements.                 *)
(* The clock is read once per pass: time passes in get_inputs.  Instants    *)
(* are kept relative to a sliding origin: the clock always reads Horizon,  *)
(* and when d units pass the recorded instants timeout_start and           *)
(* grace_start move back by d instead.  An instant that would move before  *)
(* the origin stays at 0, which is older than every delta.  An instant the  *)
(* class of the object does not read before its next on_enter rewrites it  *)
(* (timeout_start outside the powered classes, grace_start outside the     *)
(* grace classes) is moved to the origin at once.                          *)
(***************************************************************************)
EXTENDS Integers, Sequences, FiniteSets, TLC

\* ---------------------------------------------------------------- bounds
MaxCard == 2        \* card IDs are 1..MaxCard
MaxStep == 1        \* largest clock advance between two passes
MinuteLen == 2      \* clock units in one minute of timeout_minutes
GracePeriod == 1    \* [user_exp] grace_period, in clock units
CompletionCap == 2  \* the completion counter saturates here

Max(a, b) == IF a > b THEN a ELSE b
Min(a, b) == IF a < b THEN a ELSE b

\* the reading of the clock; larger than every delta a pass compares with
Horizon == Max(MinuteLen, GracePeriod) + 1
now == Horizon

\* ------------------------------------------------------------- card types
INVALID_CARD == "INVALID_CARD"
SHUTDOWN_CARD == "SHUTDOWN_CARD"
PROXY_CARD == "PROXY_CARD"
TRAINING_CARD == "TRAINING_CARD"
USER_CARD == "USER_CARD"
CardTypes == {INVALID_CARD, SHUTDOWN_CARD, PROXY_CARD, TRAINING_CARD, USER_CARD}

\* Python None / JSON null: as a number and as a card type
None == -99
NoType == "None"
Cards == 1..MaxCard
\* what read_RFID_card returns when no card is in the reader
NoCard == -1

VARIABLES
    state,                 \* the class of the FSM object
    auth_user_id, proxy_id, training_id, user_authority_level,
    timeout_start, grace_start, timeout_delta, grace_delta,
    allow_proxy,           \* FSM copy of the profile's allow_proxy
    timeout_minutes,       \* service.timeout_minutes
    svc_allow_proxy,       \* service.allow_proxy
    requires_training, requires_payment,   \* db policy flags
    equipment_id,          \* service.equipment_id
    running,               \* service.running
    input_data,            \* the input tuple of the last pass
    power,                 \* the equipment power relay
    beeping,               \* periodic beeping scheduled and not stopped
    effects,               \* side effects issued in the current pass
    completions,           \* log_access_completion calls since the last
                           \* access attempt logged by RunningAuthUser
    pc,                    \* position of the supervisor
    card_details, auth_result   \* last backend response and its verdict

vars == << state, auth_user_id, proxy_id, training_id, user_authority_level,
           timeout_start, grace_start, timeout_delta, grace_delta,
           allow_proxy, timeout_minutes, svc_allow_proxy,
           requires_training, requires_payment, equipment_id, running,
           input_data, power, beeping, effects, completions, pc,
           card_details, auth_result >>

\* one side effect: a call on the box, the database or the emailer
Eff(op, card, flag) == [op |-> op, card |-> card, flag |-> flag, cls |-> ""]

\* the record of a class rebinding, kept with the side effects
Enter(cls) == [op |-> "enter", card |-> 0, flag |-> FALSE, cls |-> cls]

\* the record of fsm(input_data): the class whose __call__ body runs
Called(cls) == [op |-> "call", card |-> 0, flag |-> FALSE, cls |-> cls]

\* ------------------------------------------------------------ Database.py
\* Python truthiness of an int
Truthy(x) == x # 0

\* is_user_authorized_for_equipment_type: balance and user_auth are
\* converted first (see authorization_raises), then user_active is examined
\* float(None) and int(None) raise a TypeError
authorization_raises(card) ==
    card.user_balance = None \/ card.user_auth = None

\* the rule with the payment test applied only together with training
is_user_authorized_payment_skipped(rt, rp, card) ==
    IF card.user_active = None THEN FALSE
    ELSE IF card.user_active # 1 THEN FALSE
    ELSE IF Truthy(rt) /\ Truthy(rp)
         THEN (card.user_balance > 0 /\ Truthy(card.user_auth))
    ELSE IF Truthy(rt) /\ ~Truthy(rp) THEN Truthy(card.user_auth)
    ELSE TRUE

is_user_authorized_for_equipment_type(rt, rp, card) ==
    IF card.user_active = None THEN FALSE
    ELSE IF card.user_active # 1 THEN FALSE
    ELSE IF Truthy(rt) /\ Truthy(rp)
         THEN (card.user_balance > 0 /\ Truthy(card.user_auth))
    ELSE IF Truthy(rt) /\ ~Truthy(rp) THEN Truthy(card.user_auth)
    ELSE IF ~Truthy(rt) /\ Truthy(rp) THEN card.user_balance > 0
    ELSE TRUE

\* get_card_details whose API error yields an authorized user card
get_card_details_error_authorized(rt, rp, response) ==
    IF response.status # 200
    THEN [user_is_authorized |-> TRUE, card_type |-> USER_CARD,
          user_authority_level |-> 0]
    ELSE [user_is_authorized |->
              is_user_authorized_for_equipment_type(rt, rp, response),
          card_type |-> IF response.card_type = NoType THEN INVALID_CARD
                        ELSE response.card_type,
          user_authority_level |-> IF response.user_role = None THEN 0
                                   ELSE response.user_role]

\* get_card_details whose API error yields an unauthorized user card
get_card_details_error_user_card(rt, rp, response) ==
    IF response.status # 200
    THEN [user_is_authorized |-> FALSE, card_type |-> USER_CARD,
          user_authority_level |-> 0]
    ELSE [user_is_authorized |->
              is_user_authorized_for_equipment_type(rt, rp, response),
          card_type |-> IF response.card_type = NoType THEN INVALID_CARD
                        ELSE response.card_type,
          user_authority_level |-> IF response.user_role = None THEN 0
                                   ELSE response.user_role]

\* get_card_details: a non-200 response yields an unauthorized invalid
\* card; a null user_role is 0 and a null card_type is invalid
get_card_details(rt, rp, response) ==
    IF response.status # 200
    THEN [user_is_authorized |-> FALSE, card_type |-> INVALID_CARD,
          user_authority_level |-> 0]
    ELSE [user_is_authorized |->
              is_user_authorized_for_equipment_type(rt, rp, response),
          card_type |-> IF response.card_type = NoType THEN INVALID_CARD
                        ELSE response.card_type,
          user_authority_level |-> IF response.user_role = None THEN 0
                                   ELSE response.user_role]

\* --------------------------------------------------------- portal_fsm.py
\* the mutable part of the program, threaded through one FSM call
Ctx == [state |-> state, auth_user_id |-> auth_user_id,
        proxy_id |-> proxy_id, training_id |-> training_id,
        user_authority_level |-> user_authority_level,
        timeout_start |-> timeout_start, grace_start |-> grace_start,
        power |-> power, beeping |-> beeping, effects |-> effects,
        completions |-> completions, running |-> running]

emit(s, e) == [s EXCEPT !.effects = Append(@, e)]

set_equipment_power_on(s, on) ==
    [emit(s, Eff("set_equipment_power_on", 0, on)) EXCEPT !.power = on]

log_access_attempt(s, card, successful) ==
    emit(s, Eff("log_access_attempt", card, successful))

log_access_completion(s, card) ==
    [emit(s, Eff("log_access_completion", card, FALSE))
        EXCEPT !.completions = Min(@ + 1, CompletionCap)]

start_beeping(s) == [emit(s, Eff("start_beeping", 0, FALSE)) EXCEPT !.beeping = TRUE]

\* stop_buzzer that ends the tone and leaves the periodic beeping
stop_buzzer_keeps_beeping(s) == emit(s, Eff("stop_buzzer", 0, FALSE))

stop_buzzer(s) == [emit(s, Eff("stop_buzzer", 0, TRUE)) EXCEPT !.beeping = FALSE]

\* timeout_expired that does not look at timeout_minutes
timeout_expired_ignores_minutes(s) ==
    (now - s.timeout_start) > timeout_delta

timeout_expired(s) ==
    timeout_minutes > 0 /\ (now - s.timeout_start) > timeout_delta

\* grace_expired that is true as soon as the grace period is used up
grace_expired_at_equal(s) == (now - s.grace_start) >= grace_delta

grace_expired(s) == (now - s.grace_start) > grace_delta

RECURSIVE next_state(_, _, _)

IdleNoCard_on_enter(s, inp) == emit(s, Eff("sleep_display", 0, FALSE))

\* AccessComplete that leaves the relay as it is
AccessComplete_on_enter_keeps_power(s, inp) ==
    LET s1 == log_access_completion(s, s.auth_user_id)
        s3 == [s1 EXCEPT !.proxy_id = 0, !.training_id = 0,
                         !.auth_user_id = 0, !.user_authority_level = 0]
    IN next_state(s3, "IdleNoCard", inp)

\* AccessComplete that does not clear proxy_id and training_id
AccessComplete_on_enter_keeps_ids(s, inp) ==
    LET s1 == log_access_completion(s, s.auth_user_id)
        s2 == set_equipment_power_on(s1, FALSE)
        s3 == [s2 EXCEPT !.auth_user_id = 0, !.user_authority_level = 0]
    IN next_state(s3, "IdleNoCard", inp)

\* AccessComplete that does not clear auth_user_id
AccessComplete_on_enter_keeps_auth(s, inp) ==
    LET s1 == log_access_completion(s, s.auth_user_id)
        s2 == set_equipment_power_on(s1, FALSE)
        s3 == [s2 EXCEPT !.proxy_id = 0, !.training_id = 0,
                         !.user_authority_level = 0]
    IN next_state(s3, "IdleNoCard", inp)

AccessComplete_on_enter(s, inp) ==
    LET s1 == log_access_completion(s, s.auth_user_id)
        s2 == set_equipment_power_on(s1, FALSE)
        s3 == [s2 EXCEPT !.proxy_id = 0, !.training_id = 0,
                         !.auth_user_id = 0, !.user_authority_level = 0]
    IN next_state(s3, "IdleNoCard", inp)

\* IdleUnknownCard that accepts an authorized card of any type
IdleUnknownCard_on_enter_any_type(s, inp) ==
    IF inp.card_type = SHUTDOWN_CARD
    THEN next_state(s, "Shutdown", inp)
    ELSE IF inp.user_is_authorized
    THEN next_state(s, "RunningAuthUser", inp)
    ELSE next_state(s, "IdleUnauthCard", inp)

\* IdleUnknownCard that tests the authorization before the shutdown card
IdleUnknownCard_on_enter_auth_first(s, inp) ==
    IF ~inp.user_is_authorized
    THEN next_state(s, "IdleUnauthCard", inp)
    ELSE IF inp.card_type = SHUTDOWN_CARD
    THEN next_state(s, "Shutdown", inp)
    ELSE IF inp.card_type = USER_CARD
    THEN next_state(s, "RunningAuthUser", inp)
    ELSE next_state(s, "IdleUnauthCard", inp)

IdleUnknownCard_on_enter(s, inp) ==
    IF inp.card_type = SHUTDOWN_CARD
    THEN next_state(s, "Shutdown", inp)
    ELSE IF inp.user_is_authorized /\ inp.card_type = USER_CARD
    THEN next_state(s, "RunningAuthUser", inp)
    ELSE next_state(s, "IdleUnauthCard", inp)

\* RunningAuthUser that logs an access attempt on every entry
RunningAuthUser_on_enter_always_logs(s, inp) ==
    LET s1 == [s EXCEPT !.timeout_start = now, !.proxy_id = 0,
                        !.training_id = 0]
        s2 == emit(set_equipment_power_on(s1, TRUE), Eff("beep_once", 0, FALSE))
        s3 == [log_access_attempt(s2, inp.card_id, TRUE)
                  EXCEPT !.completions = 0]
    IN [s3 EXCEPT !.auth_user_id = inp.card_id,
                  !.user_authority_level = inp.user_authority_level]

RunningAuthUser_on_enter(s, inp) ==
    LET s1 == [s EXCEPT !.timeout_start = now, !.proxy_id = 0,
                        !.training_id = 0]
        s2 == emit(set_equipment_power_on(s1, TRUE), Eff("beep_once", 0, FALSE))
        s3 == IF s2.auth_user_id # inp.card_id
              THEN [log_access_attempt(s2, inp.card_id, TRUE)
                       EXCEPT !.completions = 0]
              ELSE s2
    IN [s3 EXCEPT !.auth_user_id = inp.card_id,
                  !.user_authority_level = inp.user_authority_level]

IdleUnauthCard_on_enter(s, inp) ==
    LET s1 == emit(s, Eff("beep_once", 0, FALSE))
        s2 == set_equipment_power_on(s1, FALSE)
    IN log_access_attempt(s2, inp.card_id, FALSE)

RunningNoCard_on_enter(s, inp) ==
    start_beeping([s EXCEPT !.grace_start = now])

\* RunningUnauthCard that keeps the grace_start of the grace period before
RunningUnauthCard_on_enter_keeps_grace_start(s, inp) ==
    start_beeping(s)

RunningUnauthCard_on_enter(s, inp) ==
    start_beeping([s EXCEPT !.grace_start = now])

RunningTimeout_on_enter(s, inp) ==
    start_beeping([s EXCEPT !.grace_start = now])

\* IdleAuthCard that leaves the relay as it is
IdleAuthCard_on_enter_keeps_power(s, inp) ==
    LET s2 == log_access_completion(s, s.auth_user_id)
        s3 == IF s2.proxy_id > 0
              THEN emit(s2, Eff("send_user_email_proxy", s2.auth_user_id, FALSE))
              ELSE s2
        s4 == IF s3.training_id > 0
              THEN emit(s3, Eff("send_user_email_training", s3.auth_user_id, FALSE))
              ELSE emit(s3, Eff("send_user_email", inp.card_id, FALSE))
    IN [s4 EXCEPT !.proxy_id = 0, !.training_id = 0,
                  !.auth_user_id = 0, !.user_authority_level = 0]

IdleAuthCard_on_enter(s, inp) ==
    LET s1 == set_equipment_power_on(s, FALSE)
        s2 == log_access_completion(s1, s1.auth_user_id)
        s3 == IF s2.proxy_id > 0
              THEN emit(s2, Eff("send_user_email_proxy", s2.auth_user_id, FALSE))
              ELSE s2
        s4 == IF s3.training_id > 0
              THEN emit(s3, Eff("send_user_email_training", s3.auth_user_id, FALSE))
              ELSE emit(s3, Eff("send_user_email", inp.card_id, FALSE))
    IN [s4 EXCEPT !.proxy_id = 0, !.training_id = 0,
                  !.auth_user_id = 0, !.user_authority_level = 0]

\* RunningProxyCard that resets training_id to the unset value of the class
RunningProxyCard_on_enter_unsets_training(s, inp) ==
    LET s1 == [s EXCEPT !.timeout_start = now, !.training_id = -1]
        s2 == IF s1.proxy_id # inp.card_id
              THEN log_access_attempt(s1, inp.card_id, TRUE)
              ELSE s1
        s3 == [s2 EXCEPT !.proxy_id = inp.card_id]
    IN emit(set_equipment_power_on(s3, TRUE), Eff("beep_once", 0, FALSE))

RunningProxyCard_on_enter(s, inp) ==
    LET s1 == [s EXCEPT !.timeout_start = now, !.training_id = 0]
        s2 == IF s1.proxy_id # inp.card_id
              THEN log_access_attempt(s1, inp.card_id, TRUE)
              ELSE s1
        s3 == [s2 EXCEPT !.proxy_id = inp.card_id]
    IN emit(set_equipment_power_on(s3, TRUE), Eff("beep_once", 0, FALSE))

\* RunningTrainingCard that does not restart the timeout
RunningTrainingCard_on_enter_keeps_timeout_start(s, inp) ==
    LET s1 == [s EXCEPT !.proxy_id = 0]
        s2 == IF s1.training_id # inp.card_id
              THEN log_access_attempt(s1, inp.card_id, TRUE)
              ELSE s1
        s3 == [s2 EXCEPT !.training_id = inp.card_id]
    IN emit(set_equipment_power_on(s3, TRUE), Eff("beep_once", 0, FALSE))

RunningTrainingCard_on_enter(s, inp) ==
    LET s1 == [s EXCEPT !.timeout_start = now, !.proxy_id = 0]
        s2 == IF s1.training_id # inp.card_id
              THEN log_access_attempt(s1, inp.card_id, TRUE)
              ELSE s1
        s3 == [s2 EXCEPT !.training_id = inp.card_id]
    IN emit(set_equipment_power_on(s3, TRUE), Eff("beep_once", 0, FALSE))

\* next_state: rebind the class, then run the on_enter of the new class
\* (Shutdown and RunningUnknownCard inherit the default on_enter)
next_state(s, cls, inp) ==
    LET t == [emit(s, Enter(cls)) EXCEPT !.state = cls]
    IN CASE cls = "IdleNoCard" -> IdleNoCard_on_enter(t, inp)
         [] cls = "AccessComplete" -> AccessComplete_on_enter(t, inp)
         [] cls = "IdleUnknownCard" -> IdleUnknownCard_on_enter(t, inp)
         [] cls = "RunningAuthUser" -> RunningAuthUser_on_enter(t, inp)
         [] cls = "IdleUnauthCard" -> IdleUnauthCard_on_enter(t, inp)
         [] cls = "RunningNoCard" -> RunningNoCard_on_enter(t, inp)
         [] cls = "RunningUnauthCard" -> RunningUnauthCard_on_enter(t, inp)
         [] cls = "RunningTimeout" -> RunningTimeout_on_enter(t, inp)
         [] cls = "IdleAuthCard" -> IdleAuthCard_on_enter(t, inp)
         [] cls = "RunningProxyCard" -> RunningProxyCard_on_enter(t, inp)
         [] cls = "RunningTrainingCard" -> RunningTrainingCard_on_enter(t, inp)
         [] OTHER -> t

\* the classes whose on_enter switches the relay on and restarts the timeout;
\* their __call__ reads timeout_start
PoweredStates == {"RunningAuthUser", "RunningProxyCard", "RunningTrainingCard"}
\* the classes of a grace period; their __call__ reads grace_start
GraceStates == {"RunningNoCard", "RunningUnknownCard", "RunningUnauthCard",
                "RunningTimeout"}
RunningStates == PoweredStates \cup GraceStates

\* ------------------------------------------------------- __call__ bodies
\* a next_state call made by a __call__ body itself (a row of the transition
\* table), as opposed to one made by an on_enter
on_tick(s, cls, inp) == next_state(emit(s, Eff("on_tick", 0, FALSE)), cls, inp)
IdleNoCard_call(s, inp) ==
    IF inp.card_id > 0 THEN on_tick(s, "IdleUnknownCard", inp) ELSE s

IdleUnauthCard_call(s, inp) ==
    IF inp.card_id <= 0 THEN on_tick(s, "IdleNoCard", inp) ELSE s

IdleAuthCard_call(s, inp) ==
    IF inp.card_id <= 0 THEN on_tick(s, "IdleNoCard", inp) ELSE s

\* service.shutdown that leaves the running flag to the loop
service_shutdown_keeps_running(s, card) ==
    LET s1 == emit(s, Eff("cleanup", 0, FALSE))
    IN IF Truthy(equipment_id)
       THEN emit(s1, Eff("log_shutdown_status", card, FALSE))
       ELSE s1

\* service.shutdown: cleanup, log the shutdown when equipment_id is truthy,
\* stop the loop
service_shutdown(s, card) ==
    LET s1 == emit(s, Eff("cleanup", 0, FALSE))
        s2 == IF Truthy(equipment_id)
              THEN emit(s1, Eff("log_shutdown_status", card, FALSE))
              ELSE s1
    IN [s2 EXCEPT !.running = FALSE]

Shutdown_call(s, inp) ==
    service_shutdown(set_equipment_power_on(s, FALSE), inp.card_id)

\* RunningUnknownCard that gives every present card of another type a
\* grace period
RunningUnknownCard_call_unauth_when_present(s, inp) ==
    IF inp.card_type = PROXY_CARD
    THEN IF allow_proxy = 1 /\ s.training_id <= 0
         THEN stop_buzzer(on_tick(s, "RunningProxyCard", inp))
         ELSE stop_buzzer(on_tick(s, "RunningUnauthCard", inp))
    ELSE IF inp.card_type = USER_CARD
    THEN IF inp.card_id = s.auth_user_id
         THEN stop_buzzer(on_tick(s, "RunningAuthUser", inp))
         ELSE IF /\ s.user_authority_level >= 3
                 /\ s.proxy_id <= 0
                 /\ (s.training_id <= 0 \/ s.training_id = inp.card_id)
                 /\ ~inp.user_is_authorized
         THEN stop_buzzer(on_tick(s, "RunningTrainingCard", inp))
         ELSE stop_buzzer(on_tick(s, "RunningUnauthCard", inp))
    ELSE IF inp.card_id > 0
    THEN stop_buzzer(on_tick(s, "RunningUnauthCard", inp))
    ELSE stop_buzzer(on_tick(s, "AccessComplete", inp))

\* RunningUnknownCard that accepts a proxy card during a training session
RunningUnknownCard_call_proxy_in_training(s, inp) ==
    IF inp.card_type = PROXY_CARD
    THEN IF allow_proxy = 1
         THEN stop_buzzer(on_tick(s, "RunningProxyCard", inp))
         ELSE stop_buzzer(on_tick(s, "RunningUnauthCard", inp))
    ELSE IF inp.card_type = USER_CARD
    THEN IF inp.card_id = s.auth_user_id
         THEN stop_buzzer(on_tick(s, "RunningAuthUser", inp))
         ELSE IF /\ s.user_authority_level >= 3
                 /\ s.proxy_id <= 0
                 /\ (s.training_id <= 0 \/ s.training_id = inp.card_id)
                 /\ ~inp.user_is_authorized
         THEN stop_buzzer(on_tick(s, "RunningTrainingCard", inp))
         ELSE stop_buzzer(on_tick(s, "RunningUnauthCard", inp))
    ELSE stop_buzzer(on_tick(s, "AccessComplete", inp))

\* RunningUnknownCard that starts a training session whatever the level of
\* the user who opened the session
RunningUnknownCard_call_any_trainer(s, inp) ==
    IF inp.card_type = PROXY_CARD
    THEN IF allow_proxy = 1 /\ s.training_id <= 0
         THEN stop_buzzer(on_tick(s, "RunningProxyCard", inp))
         ELSE stop_buzzer(on_tick(s, "RunningUnauthCard", inp))
    ELSE IF inp.card_type = USER_CARD
    THEN IF inp.card_id = s.auth_user_id
         THEN stop_buzzer(on_tick(s, "RunningAuthUser", inp))
         ELSE IF /\ s.proxy_id <= 0
                 /\ (s.training_id <= 0 \/ s.training_id = inp.card_id)
                 /\ ~inp.user_is_authorized
         THEN stop_buzzer(on_tick(s, "RunningTrainingCard", inp))
         ELSE stop_buzzer(on_tick(s, "RunningUnauthCard", inp))
    ELSE stop_buzzer(on_tick(s, "AccessComplete", inp))

\* RunningUnknownCard that hands the session to any authorized user card
RunningUnknownCard_call_any_authorized(s, inp) ==
    IF inp.card_type = PROXY_CARD
    THEN IF allow_proxy = 1 /\ s.training_id <= 0
         THEN stop_buzzer(on_tick(s, "RunningProxyCard", inp))
         ELSE stop_buzzer(on_tick(s, "RunningUnauthCard", inp))
    ELSE IF inp.card_type = USER_CARD
    THEN IF inp.card_id = s.auth_user_id \/ inp.user_is_authorized
         THEN stop_buzzer(on_tick(s, "RunningAuthUser", inp))
         ELSE IF /\ s.user_authority_level >= 3
                 /\ s.proxy_id <= 0
                 /\ (s.training_id <= 0 \/ s.training_id = inp.card_id)
                 /\ ~inp.user_is_authorized
         THEN stop_buzzer(on_tick(s, "RunningTrainingCard", inp))
         ELSE stop_buzzer(on_tick(s, "RunningUnauthCard", inp))
    ELSE stop_buzzer(on_tick(s, "AccessComplete", inp))

\* RunningUnknownCard that goes to Shutdown on a shutdown card
RunningUnknownCard_call_shutdown_direct(s, inp) ==
    IF inp.card_type = SHUTDOWN_CARD
    THEN stop_buzzer(on_tick(s, "Shutdown", inp))
    ELSE IF inp.card_type = PROXY_CARD
    THEN IF allow_proxy = 1 /\ s.training_id <= 0
         THEN stop_buzzer(on_tick(s, "RunningProxyCard", inp))
         ELSE stop_buzzer(on_tick(s, "RunningUnauthCard", inp))
    ELSE IF inp.card_type = USER_CARD
    THEN IF inp.card_id = s.auth_user_id
         THEN stop_buzzer(on_tick(s, "RunningAuthUser", inp))
         ELSE IF /\ s.user_authority_level >= 3
                 /\ s.proxy_id <= 0
                 /\ (s.training_id <= 0 \/ s.training_id = inp.card_id)
                 /\ ~inp.user_is_authorized
         THEN stop_buzzer(on_tick(s, "RunningTrainingCard", inp))
         ELSE stop_buzzer(on_tick(s, "RunningUnauthCard", inp))
    ELSE stop_buzzer(on_tick(s, "AccessComplete", inp))

RunningUnknownCard_call(s, inp) ==
    IF inp.card_type = PROXY_CARD
    THEN IF allow_proxy = 1 /\ s.training_id <= 0
         THEN stop_buzzer(on_tick(s, "RunningProxyCard", inp))
         ELSE stop_buzzer(on_tick(s, "RunningUnauthCard", inp))
    ELSE IF inp.card_type = USER_CARD
    THEN IF inp.card_id = s.auth_user_id
         THEN stop_buzzer(on_tick(s, "RunningAuthUser", inp))
         ELSE IF /\ s.user_authority_level >= 3
                 /\ s.proxy_id <= 0
                 /\ (s.training_id <= 0 \/ s.training_id = inp.card_id)
                 /\ ~inp.user_is_authorized
         THEN stop_buzzer(on_tick(s, "RunningTrainingCard", inp))
         ELSE stop_buzzer(on_tick(s, "RunningUnauthCard", inp))
    ELSE stop_buzzer(on_tick(s, "AccessComplete", inp))

\* the three if statements of a __call__ body run one after the other,
\* each on the object as the previous one left it
RunningAuthUser_call(s, inp) ==
    LET s1 == IF inp.card_id <= 0
              THEN on_tick(s, "RunningNoCard", inp) ELSE s
    IN IF timeout_expired(s1)
       THEN on_tick(s1, "RunningTimeout", inp) ELSE s1

RunningNoCard_call(s, inp) ==
    LET s1 == IF inp.card_id > 0 /\ inp.card_type # INVALID_CARD
              THEN on_tick(s, "RunningUnknownCard", inp) ELSE s
        s2 == IF grace_expired(s1)
              THEN stop_buzzer(on_tick(s1, "AccessComplete", inp)) ELSE s1
    IN IF inp.button_pressed
       THEN stop_buzzer(on_tick(s2, "AccessComplete", inp)) ELSE s2

RunningUnauthCard_call(s, inp) ==
    LET s1 == IF inp.card_id > 0 /\ inp.card_id = s.auth_user_id
              THEN stop_buzzer(on_tick(s, "RunningUnknownCard", inp)) ELSE s
        s2 == IF grace_expired(s1)
              THEN stop_buzzer(on_tick(s1, "AccessComplete", inp)) ELSE s1
    IN IF inp.button_pressed
       THEN stop_buzzer(on_tick(s2, "AccessComplete", inp)) ELSE s2

\* RunningTimeout whose expired grace period ends in AccessComplete
RunningTimeout_call_completes(s, inp) ==
    LET s1 == IF inp.button_pressed
              THEN stop_buzzer(on_tick(s, "RunningUnknownCard", inp)) ELSE s
        s2 == IF inp.card_id <= 0
              THEN stop_buzzer(on_tick(s1, "AccessComplete", inp)) ELSE s1
    IN IF grace_expired(s2)
       THEN stop_buzzer(on_tick(s2, "AccessComplete", inp)) ELSE s2

\* RunningTimeout whose button ends the session
RunningTimeout_call_button_ends(s, inp) ==
    LET s1 == IF inp.button_pressed
              THEN stop_buzzer(on_tick(s, "AccessComplete", inp)) ELSE s
        s2 == IF inp.card_id <= 0
              THEN stop_buzzer(on_tick(s1, "AccessComplete", inp)) ELSE s1
    IN IF grace_expired(s2)
       THEN stop_buzzer(on_tick(s2, "IdleAuthCard", inp)) ELSE s2

RunningTimeout_call(s, inp) ==
    LET s1 == IF inp.button_pressed
              THEN stop_buzzer(on_tick(s, "RunningUnknownCard", inp)) ELSE s
        s2 == IF inp.card_id <= 0
              THEN stop_buzzer(on_tick(s1, "AccessComplete", inp)) ELSE s1
    IN IF grace_expired(s2)
       THEN stop_buzzer(on_tick(s2, "IdleAuthCard", inp)) ELSE s2

RunningProxyCard_call(s, inp) ==
    LET s1 == IF inp.card_id <= 0
              THEN on_tick(s, "RunningNoCard", inp) ELSE s
    IN IF timeout_expired(s1)
       THEN on_tick(s1, "RunningTimeout", inp) ELSE s1

RunningTrainingCard_call(s, inp) ==
    LET s1 == IF inp.card_id <= 0
              THEN on_tick(s, "RunningNoCard", inp) ELSE s
    IN IF timeout_expired(s1)
       THEN on_tick(s1, "RunningTimeout", inp) ELSE s1

\* --------------------------------------------------------------- service.py
\* the equipment profiles get_equipment_role can obtain
Profiles ==
    { p \in [id : {1}, timeout : {0, 1}, allow_proxy : {0, 1},
             requires_training : {0, 1}, charge_policy : {0, 1}] :
        /\ p.requires_training = (IF p.timeout > 0 THEN 1 ELSE 0)
        /\ p.charge_policy = (IF p.requires_training = p.allow_proxy THEN 0 ELSE 1) }

\* the user rows the backend joins to a card: no user, an active user with
\* and without training and balance, an active admin
NoUser == [user_role |-> None, user_active |-> None, user_auth |-> 0,
           user_balance |-> 0]
Users == { NoUser,
           [user_role |-> 2, user_active |-> 1, user_auth |-> 0,
            user_balance |-> 0],
           [user_role |-> 2, user_active |-> 1, user_auth |-> 1,
            user_balance |-> 1],
           [user_role |-> 3, user_active |-> 1, user_auth |-> 1,
            user_balance |-> 1] }

Response(status, card_type, user) ==
    [status |-> status, card_type |-> card_type,
     user_role |-> user.user_role, user_active |-> user.user_active,
     user_auth |-> user.user_auth, user_balance |-> user.user_balance]

\* the backend's answers to get_card_details
Responses ==
    { Response(200, USER_CARD, u) : u \in Users }
    \cup { Response(200, t, u) :
             t \in {SHUTDOWN_CARD, PROXY_CARD, TRAINING_CARD},
             u \in {NoUser, [user_role |-> 3, user_active |-> 1,
                             user_auth |-> 1, user_balance |-> 1]} }
    \cup { Response(200, NoType, NoUser), Response(500, NoType, NoUser) }

\* the steps of Setup.on_enter that can raise, in program order
\* (get_equipment_role raises when its log_started_status does; a failing
\* get_equipment_profile is caught inside it, see get_equipment_role_retry)
SetupSteps == << "connect_to_database", "connect_to_email",
                 "get_equipment_role", "record_ip", "grace_period",
                 "flash_rate", "buzz_tone" >>

StepIndex(step) == CHOOSE i \in 1..Len(SetupSteps) : SetupSteps[i] = step

\* input_data = {"card_id": 0}; the other keys are absent until the first
\* get_inputs and are never read before it
InitialInput == [card_id |-> 0, user_is_authorized |-> FALSE,
                 card_type |-> INVALID_CARD, user_authority_level |-> 0,
                 button_pressed |-> FALSE]

\* no backend response stands behind the input tuple
NoDetails == Response(0, NoType, NoUser)

InitFsm ==
    /\ state = "Setup"
    /\ auth_user_id = -1 /\ proxy_id = -1 /\ training_id = -1
    /\ user_authority_level = 0
    /\ timeout_start = now /\ grace_start = now
    /\ timeout_delta = 0 /\ grace_delta = 2
    /\ allow_proxy = 0
    /\ timeout_minutes = 0 /\ svc_allow_proxy = 0
    /\ requires_training = 0 /\ requires_payment = 0
    /\ equipment_id = -1
    /\ running = TRUE
    /\ input_data = InitialInput
    /\ power = FALSE /\ beeping = FALSE
    /\ effects = << >>
    /\ completions = 0

Init ==
    /\ InitFsm
    /\ pc = "construct"
    /\ card_details = NoDetails /\ auth_result = "none"

\* write the mutable part back
Store(s) ==
    /\ state' = s.state
    /\ auth_user_id' = s.auth_user_id
    /\ proxy_id' = s.proxy_id
    /\ training_id' = s.training_id
    /\ user_authority_level' = s.user_authority_level
    /\ timeout_start' = s.timeout_start
    /\ grace_start' = s.grace_start
    /\ power' = s.power
    /\ beeping' = s.beeping
    /\ effects' = s.effects
    /\ completions' = s.completions
    /\ running' = s.running

\* one turn of the loop of get_equipment_role whose get_equipment_profile
\* raises (a non-200 answer or a network failure): the exception is caught,
\* the service sleeps and asks again; the object stays in Setup
get_equipment_role_retry ==
    /\ pc \in {"construct", "get_equipment_role"}
    /\ pc' = "get_equipment_role"
    /\ UNCHANGED << state, auth_user_id, proxy_id, training_id,
                    user_authority_level, timeout_start, grace_start,
                    timeout_delta, grace_delta, allow_proxy, timeout_minutes,
                    svc_allow_proxy, requires_training, requires_payment,
                    equipment_id, running, input_data, power, beeping, effects,
                    completions, card_details, auth_result >>

\* Setup whose failing confirmation tone leaves the object in IdleNoCard
Setup_on_enter_swallows_tone ==
    /\ pc \in {"construct", "get_equipment_role"}
    /\ \E profile \in Profiles, failing \in 0..Len(SetupSteps) :
        /\ pc = "get_equipment_role"
           => (failing = 0 \/ failing >= StepIndex("get_equipment_role"))
        /\ LET done(step) == failing = 0 \/ StepIndex(step) < failing
               \* get_equipment_role stores the profile before the call of
               \* log_started_status that can make it raise
               reached(step) == failing = 0 \/ StepIndex(step) <= failing
               s0 == emit(Ctx, Eff("set_display_color", 0, FALSE))
               s1 == IF failing = 0
                     THEN emit(next_state(s0, "IdleNoCard", input_data),
                               Eff("buzz_tone", 0, FALSE))
                     ELSE IF failing = StepIndex("buzz_tone")
                     THEN next_state(s0, "IdleNoCard", input_data)
                     ELSE next_state(s0, "Shutdown", input_data)
           IN /\ Store(s1)
              /\ IF reached("get_equipment_role")
                 THEN /\ equipment_id' = profile.id
                      /\ timeout_minutes' = profile.timeout
                      /\ svc_allow_proxy' = profile.allow_proxy
                      /\ requires_training' = profile.requires_training
                      /\ requires_payment' = profile.charge_policy
                 ELSE UNCHANGED << equipment_id, timeout_minutes, svc_allow_proxy,
                                   requires_training, requires_payment >>
              /\ timeout_delta' = IF done("record_ip")
                                  THEN profile.timeout * MinuteLen ELSE timeout_delta
              /\ grace_delta' = IF done("grace_period")
                                THEN GracePeriod ELSE grace_delta
              /\ allow_proxy' = IF done("grace_period")
                                THEN profile.allow_proxy ELSE allow_proxy
              /\ pc' = IF failing = 0 THEN "get_inputs" ELSE "raised"
    /\ UNCHANGED << input_data, card_details, auth_result >>

\* fsm.Setup(self, input_data): State.__init__ runs Setup.on_enter.  A step
\* that raises sends the object to Shutdown and the exception leaves run().
\* Inside the loop of get_equipment_role the two connections are behind
Setup_on_enter ==
    /\ pc \in {"construct", "get_equipment_role"}
    /\ \E profile \in Profiles, failing \in 0..Len(SetupSteps) :
        /\ pc = "get_equipment_role"
           => (failing = 0 \/ failing >= StepIndex("get_equipment_role"))
        /\ LET done(step) == failing = 0 \/ StepIndex(step) < failing
               \* get_equipment_role stores the profile before the call of
               \* log_started_status that can make it raise
               reached(step) == failing = 0 \/ StepIndex(step) <= failing
               s0 == emit(Ctx, Eff("set_display_color", 0, FALSE))
               s1 == IF failing = 0
                     THEN emit(next_state(s0, "IdleNoCard", input_data),
                               Eff("buzz_tone", 0, FALSE))
                     ELSE IF failing = StepIndex("buzz_tone")
                     THEN next_state(next_state(s0, "IdleNoCard", input_data),
                                     "Shutdown", input_data)
                     ELSE next_state(s0, "Shutdown", input_data)
           IN /\ Store(s1)
              /\ IF reached("get_equipment_role")
                 THEN /\ equipment_id' = profile.id
                      /\ timeout_minutes' = profile.timeout
                      /\ svc_allow_proxy' = profile.allow_proxy
                      /\ requires_training' = profile.requires_training
                      /\ requires_payment' = profile.charge_policy
                 ELSE UNCHANGED << equipment_id, timeout_minutes, svc_allow_proxy,
                                   requires_training, requires_payment >>
              /\ timeout_delta' = IF done("record_ip")
                                  THEN profile.timeout * MinuteLen ELSE timeout_delta
              /\ grace_delta' = IF done("grace_period")
                                THEN GracePeriod ELSE grace_delta
              /\ allow_proxy' = IF done("grace_period")
                                THEN profile.allow_proxy ELSE allow_proxy
              /\ pc' = IF failing = 0 THEN "get_inputs" ELSE "raised"
    /\ UNCHANGED << input_data, card_details, auth_result >>

\* a tuple that keeps the details of the card last read
ClearedInput_keeps_details(button) ==
    [input_data EXCEPT !.card_id = -1, !.button_pressed = button]

\* the tuple of a tick that reads no card
ClearedInput(button) ==
    [card_id |-> -1, user_is_authorized |-> FALSE, card_type |-> INVALID_CARD,
     user_authority_level |-> 0, button_pressed |-> button]

\* get_inputs: a lookup only for a card that differs from the last tuple's;
\* the retry loop ends with the first lookup that does not raise
get_inputs ==
    /\ pc = "get_inputs" /\ running
    /\ \E d \in 0..MaxStep, card_id \in Cards \cup {NoCard}, button \in BOOLEAN :
        /\ timeout_start' = IF state \in PoweredStates
                            THEN Max(timeout_start - d, 0) ELSE 0
        /\ grace_start' = IF state \in GraceStates
                          THEN Max(grace_start - d, 0) ELSE 0
        /\ IF card_id > 0 /\ card_id # input_data.card_id
           THEN \E response \in Responses :
                  /\ ~(response.status = 200 /\ authorization_raises(response))
                  /\ card_details' = response
                  /\ effects' = << Eff("get_card_details", card_id, FALSE) >>
                  /\ LET details == get_card_details(requires_training,
                                                     requires_payment, response)
                     IN input_data' =
                          [card_id |-> card_id,
                           user_is_authorized |-> details.user_is_authorized,
                           card_type |-> details.card_type,
                           user_authority_level |-> details.user_authority_level,
                           button_pressed |-> button]
           ELSE IF card_id <= 0
           THEN /\ card_details' = NoDetails
                /\ effects' = << >>
                /\ input_data' = ClearedInput(button)
           ELSE /\ card_details' = card_details
                /\ effects' = << >>
                /\ input_data' = [input_data EXCEPT !.button_pressed = button]
    /\ pc' = "call"
    /\ UNCHANGED << state, auth_user_id, proxy_id, training_id,
                    user_authority_level,
                    timeout_delta, grace_delta, allow_proxy, timeout_minutes,
                    svc_allow_proxy, requires_training, requires_payment,
                    equipment_id, running, power, beeping, completions,
                    auth_result >>

\* what every fsm(input_data) leaves alone; the comparison of the class with
\* the string "Shutdown" that follows the call is never true, so the loop
\* goes on to its head
AfterCall ==
    /\ pc' = "get_inputs"
    /\ UNCHANGED << timeout_delta, grace_delta, allow_proxy, timeout_minutes,
                    svc_allow_proxy, requires_training, requires_payment,
                    equipment_id, input_data, card_details, auth_result >>

\* fsm(input_data), one action for each class the object can have when a
\* pass calls it (Setup, AccessComplete and IdleUnknownCard are left within
\* the pass that enters them)
IdleNoCard ==
    /\ pc = "call" /\ state = "IdleNoCard"
    /\ Store(IdleNoCard_call(emit(Ctx, Called("IdleNoCard")), input_data))
    /\ AfterCall

IdleUnauthCard ==
    /\ pc = "call" /\ state = "IdleUnauthCard"
    /\ Store(IdleUnauthCard_call(emit(Ctx, Called("IdleUnauthCard")), input_data))
    /\ AfterCall

IdleAuthCard ==
    /\ pc = "call" /\ state = "IdleAuthCard"
    /\ Store(IdleAuthCard_call(emit(Ctx, Called("IdleAuthCard")), input_data))
    /\ AfterCall

Shutdown ==
    /\ pc = "call" /\ state = "Shutdown"
    /\ Store(Shutdown_call(emit(Ctx, Called("Shutdown")), input_data))
    /\ AfterCall

RunningUnknownCard ==
    /\ pc = "call" /\ state = "RunningUnknownCard"
    /\ Store(RunningUnknownCard_call(emit(Ctx, Called("RunningUnknownCard")), input_data))
    /\ AfterCall

RunningAuthUser ==
    /\ pc = "call" /\ state = "RunningAuthUser"
    /\ Store(RunningAuthUser_call(emit(Ctx, Called("RunningAuthUser")), input_data))
    /\ AfterCall

RunningNoCard ==
    /\ pc = "call" /\ state = "RunningNoCard"
    /\ Store(RunningNoCard_call(emit(Ctx, Called("RunningNoCard")), input_data))
    /\ AfterCall

RunningUnauthCard ==
    /\ pc = "call" /\ state = "RunningUnauthCard"
    /\ Store(RunningUnauthCard_call(emit(Ctx, Called("RunningUnauthCard")), input_data))
    /\ AfterCall

RunningTimeout ==
    /\ pc = "call" /\ state = "RunningTimeout"
    /\ Store(RunningTimeout_call(emit(Ctx, Called("RunningTimeout")), input_data))
    /\ AfterCall

RunningProxyCard ==
    /\ pc = "call" /\ state = "RunningProxyCard"
    /\ Store(RunningProxyCard_call(emit(Ctx, Called("RunningProxyCard")), input_data))
    /\ AfterCall

RunningTrainingCard ==
    /\ pc = "call" /\ state = "RunningTrainingCard"
    /\ Store(RunningTrainingCard_call(emit(Ctx, Called("RunningTrainingCard")), input_data))
    /\ AfterCall

\* handle_interrupt: SIGINT or SIGTERM clears the running flag.  The flag is
\* read only at the head of the loop, so a signal that arrives during a pass
\* has the effect of one that arrives right after it
handle_interrupt ==
    /\ pc = "get_inputs" /\ running
    /\ running' = FALSE
    /\ UNCHANGED << state, auth_user_id, proxy_id, training_id,
                    user_authority_level, timeout_start, grace_start,
                    timeout_delta, grace_delta, allow_proxy, timeout_minutes,
                    svc_allow_proxy, requires_training, requires_payment,
                    equipment_id, input_data, power, beeping, effects,
                    completions, pc, card_details, auth_result >>

\* the while loop ends: box.cleanup() and logging.shutdown()
run_cleanup ==
    /\ pc = "get_inputs" /\ ~running
    /\ effects' = << Eff("cleanup", 0, FALSE) >>
    /\ pc' = "done"
    /\ UNCHANGED << state, auth_user_id, proxy_id, training_id,
                    user_authority_level, timeout_start, grace_start,
                    timeout_delta, grace_delta, allow_proxy, timeout_minutes,
                    svc_allow_proxy, requires_training, requires_payment,
                    equipment_id, running, input_data, power, beeping,
                    completions, card_details, auth_result >>

Next ==
    \/ get_equipment_role_retry
    \/ Setup_on_enter
    \/ get_inputs
    \/ IdleNoCard
    \/ IdleUnauthCard
    \/ IdleAuthCard
    \/ Shutdown
    \/ RunningUnknownCard
    \/ RunningAuthUser
    \/ RunningNoCard
    \/ RunningUnauthCard
    \/ RunningTimeout
    \/ RunningProxyCard
    \/ RunningTrainingCard
    \/ handle_interrupt
    \/ run_cleanup

Spec == Init /\ [][Next]_vars

\* ------------------------------------------- the authorization rule alone
\* the policy flags of a profile and the user columns of a card row
AuthInputs ==
    [requires_training : {0, 1}, requires_payment : {0, 1, 2},
     user_active : {None, 0, 1, 2}, user_auth : {None, 0, 1, 2},
     user_balance : {None, -1, 0, 1}]

InitAuth ==
    /\ InitFsm
    /\ pc = "authorize"
    /\ card_details \in AuthInputs /\ auth_result = "none"

\* one call of is_user_authorized_for_equipment_type
authorize ==
    /\ pc = "authorize"
    /\ auth_result' =
         IF authorization_raises(card_details) THEN "TypeError"
         ELSE IF is_user_authorized_for_equipment_type(
                     card_details.requires_training,
                     card_details.requires_payment, card_details)
         THEN "True" ELSE "False"
    /\ pc' = "authorized"
    /\ UNCHANGED << state, auth_user_id, proxy_id, training_id,
                    user_authority_level, timeout_start, grace_start,
                    timeout_delta, grace_delta, allow_proxy, timeout_minutes,
                    svc_allow_proxy, requires_training, requires_payment,
                    equipment_id, running, input_data, power, beeping,
                    effects, completions, card_details >>

NextAuth == authorize

SpecAuth == InitAuth /\ [][NextAuth]_vars

\* ------------------------------------------------------------ properties

\* the side effects of the last pass
Issued(op) == { i \in DOMAIN effects : effects[i].op = op }
Entered(cls) == \E i \in Issued("enter") : effects[i].cls = cls
PowerOffIssued == \E i \in Issued("set_equipment_power_on") : ~effects[i].flag

\* C1 as stated: the relay is ON only in RunningAuthUser, RunningProxyCard
\* and RunningTrainingCard, and never in a grace state
C1_PowerOnlyInPoweredStates == power => state \in PoweredStates

\* C1 amended: the relay is ON only in a Running* state, the three powered
\* states and the four grace states; never in Setup, an Idle* state or Shutdown
C1_PowerOnlyInRunningStates == power => state \in RunningStates

C1_Witness == power /\ state = "RunningTimeout" /\ pc = "get_inputs"

\* C2: a pass that ends in a non-running state ends with the relay OFF, and a
\* pass that leaves a Running* state for a non-running state issues
\* set_equipment_power_on(False) in that pass
C2_PowerOffOnLeavingRunning ==
    [][(pc = "call" /\ state' \notin RunningStates)
         => /\ ~power'
            /\ (state \in RunningStates => PowerOffIssued')]_vars

C2_Witness ==
    /\ pc = "get_inputs" /\ state = "IdleNoCard"
    /\ Entered("AccessComplete") /\ PowerOffIssued /\ ~power

UserAuthorized(inp) == inp.card_type = USER_CARD /\ inp.user_is_authorized

\* C3: a card presented in IdleNoCard switches the relay ON (RunningAuthUser)
\* only if it is an authorized USER_CARD; every other card that is not a
\* shutdown card ends the pass in IdleUnauthCard with the relay OFF, one
\* log_access_attempt(card_id, False), no successful attempt, no completion
C3_IdleCardPresented ==
    [][(pc = "call" /\ state = "IdleNoCard" /\ input_data.card_id > 0)
         => /\ power' => (UserAuthorized(input_data)
                          /\ state' = "RunningAuthUser")
            /\ (~UserAuthorized(input_data)
                /\ input_data.card_type # SHUTDOWN_CARD)
               => /\ state' = "IdleUnauthCard"
                  /\ ~power'
                  /\ Cardinality(Issued("log_access_attempt")') = 1
                  /\ \A i \in Issued("log_access_attempt")' :
                        /\ effects'[i].card = input_data.card_id
                        /\ ~effects'[i].flag
                  /\ Issued("log_access_completion")' = {}]_vars

C3_Witness ==
    /\ pc = "get_inputs" /\ state = "IdleUnauthCard"
    /\ Entered("IdleUnknownCard")
    /\ input_data.card_type = PROXY_CARD /\ input_data.user_is_authorized

\* C4: a pass that enters IdleUnknownCard with a SHUTDOWN_CARD ends in
\* Shutdown, whatever user_is_authorized and user_authority_level are
C4_ShutdownCardAlwaysShutsDown ==
    (pc = "get_inputs" /\ Entered("IdleUnknownCard")
     /\ input_data.card_type = SHUTDOWN_CARD) => state = "Shutdown"

C4_Witness ==
    /\ pc = "get_inputs" /\ Entered("IdleUnknownCard")
    /\ input_data.card_type = SHUTDOWN_CARD
    /\ ~input_data.user_is_authorized /\ state = "Shutdown"

\* C5: a session opened by a successful access attempt never gets a second
\* log_access_completion (the "exactly one, never two" part of the claim)
C5_OneCompletionPerSession == completions <= 1

\* C6: every log_access_completion of a pass carries the auth_user_id the
\* session had when the pass began, and that ID is positive
C6_CompletionCarriesAuthUser ==
    [][pc = "call"
         => \A i \in Issued("log_access_completion")' :
               effects'[i].card = auth_user_id /\ effects'[i].card > 0]_vars

\* C7: proxy_id and training_id are mutually exclusive
C7_ProxyTrainingExclusive ==
    /\ proxy_id > 0 => training_id = 0
    /\ training_id > 0 => proxy_id = 0

C7_Witness == state = "RunningProxyCard" /\ proxy_id > 0 /\ pc = "get_inputs"

\* C8 as stated: once the FSM is constructed, proxy_id is 0 outside
\* RunningProxyCard and training_id is 0 outside RunningTrainingCard
C8_IdsZeroOutsideOwnState ==
    pc \notin {"construct", "get_equipment_role"}
    => /\ state # "RunningProxyCard" => proxy_id = 0
       /\ state # "RunningTrainingCard" => training_id = 0

\* C8 amended: proxy_id is positive only in RunningProxyCard and in the grace
\* states, training_id only in RunningTrainingCard and in the grace states;
\* in every other state they are 0 or, before the first session, -1
C8_IdsPositiveOnlyInSession ==
    /\ proxy_id > 0 => state \in {"RunningProxyCard"} \cup GraceStates
    /\ training_id > 0 => state \in {"RunningTrainingCard"} \cup GraceStates
    /\ state \notin RunningStates => (proxy_id \in {-1, 0} /\ training_id \in {-1, 0})

C8_Witness == state = "RunningNoCard" /\ proxy_id > 0 /\ pc = "get_inputs"

\* C9: auth_user_id is a positive card ID at the end of every pass that ends
\* in a Running* state, and it is 0 when IdleNoCard is reached through
\* AccessComplete
C9_AuthUserIdInSession ==
    /\ state \in RunningStates => auth_user_id > 0
    /\ (state = "IdleNoCard" /\ Entered("AccessComplete")) => auth_user_id = 0

C9_Witness ==
    /\ pc = "get_inputs" /\ state = "IdleNoCard" /\ Entered("AccessComplete")
    /\ auth_user_id = 0

NoCardNoButton == input_data.card_id <= 0 /\ ~input_data.button_pressed
CardNoButton == input_data.card_id > 0 /\ ~input_data.button_pressed

\* C11: under a profile with timeout_minutes = 0 the object is never of
\* class RunningTimeout and no pass enters that class, however long the
\* relay has been on
C11_NoTimeoutWhenDisabled ==
    timeout_minutes = 0 =>
        state # "RunningTimeout" /\ ~Entered("RunningTimeout")

\* a call of a powered class, timeout disabled, timeout_start in the past
C11_Witness ==
    /\ pc = "get_inputs" /\ timeout_minutes = 0
    /\ state \in PoweredStates /\ Len(effects) = 1
    /\ timeout_start < now

EndsEnteredIn(cls) == state = cls /\ Entered(cls)

\* C12: a call that enters RunningNoCard, RunningUnauthCard or
\* RunningTimeout and ends in it leaves grace_start at the instant of the
\* call; a call that enters nothing leaves grace_start alone
C12_GraceRestartsOnEntry ==
    [][pc = "call" =>
         /\ (\E cls \in {"RunningNoCard", "RunningUnauthCard",
                           "RunningTimeout"} : EndsEnteredIn(cls)')
            => grace_start' = now
         /\ Issued("enter")' = {} => grace_start' = grace_start]_vars

\* RunningUnauthCard is entered from RunningUnknownCard, so in a session
\* that already had a grace period
C12_Witness ==
    /\ pc = "get_inputs" /\ state = "RunningUnauthCard"
    /\ Entered("RunningUnauthCard") /\ grace_start = now

\* C13: RunningNoCard called with no card and no button: while the time since
\* grace_start is at most grace_delta the class and the relay (ON) stay;
\* once it exceeds grace_delta the call goes through AccessComplete to
\* IdleNoCard, relay OFF, one log_access_completion(auth_user_id)
C13_NoCardGrace ==
    [][(pc = "call" /\ state = "RunningNoCard" /\ NoCardNoButton) =>
         IF (now - grace_start) <= grace_delta
         THEN state' = "RunningNoCard" /\ power /\ power'
              /\ Issued("enter")' = {}
         ELSE /\ state' = "IdleNoCard" /\ ~power'
              /\ Entered("AccessComplete")'
              /\ Cardinality(Issued("log_access_completion")') = 1
              /\ \A i \in Issued("log_access_completion")' :
                     effects'[i].card = auth_user_id]_vars

C13_Witness ==
    /\ pc = "get_inputs" /\ effects[1] = Called("RunningNoCard")
    /\ NoCardNoButton
    /\ state = "IdleNoCard" /\ ~power /\ completions = 1

\* C14: timeout_minutes > 0, a card in the reader, no button.  A powered
\* class stays until the time since timeout_start exceeds timeout_delta and
\* then becomes RunningTimeout, relay still ON; RunningTimeout stays until
\* the time since grace_start exceeds grace_delta and then becomes
\* IdleAuthCard, relay OFF, one log_access_completion(auth_user_id);
\* IdleAuthCard stays, relay OFF, while a card is read and becomes
\* IdleNoCard when none is
C14_TimeoutThenIdleAuthCard ==
    [][(pc = "call" /\ timeout_minutes > 0 /\ ~input_data.button_pressed) =>
         /\ (state \in PoweredStates /\ input_data.card_id > 0) =>
              /\ power'
              /\ state' = IF (now - timeout_start) > timeout_delta
                          THEN "RunningTimeout" ELSE state
         /\ (state = "RunningTimeout" /\ input_data.card_id > 0) =>
              IF (now - grace_start) > grace_delta
              THEN /\ state' = "IdleAuthCard" /\ ~power'
                   /\ Cardinality(Issued("log_access_completion")') = 1
                   /\ \A i \in Issued("log_access_completion")' :
                          effects'[i].card = auth_user_id
              ELSE state' = "RunningTimeout" /\ power'
         /\ state = "IdleAuthCard" =>
              /\ ~power'
              /\ state' = IF input_data.card_id > 0
                          THEN "IdleAuthCard" ELSE "IdleNoCard"]_vars

C14_Witness ==
    /\ pc = "get_inputs" /\ effects[1] = Called("RunningTimeout")
    /\ CardNoButton /\ timeout_minutes > 0
    /\ state = "IdleAuthCard" /\ ~power /\ completions = 1

\* C15: when the loop has ended and cleanup has run, the object is of
\* class Shutdown and the relay is OFF
C15_InterruptEntersShutdown ==
    pc = "done" => (state = "Shutdown" /\ ~power)

PowerOnIssued == \E i \in Issued("set_equipment_power_on") : effects[i].flag

\* C16: a call whose input tuple was built from a lookup that did not answer
\* 200 enters none of RunningAuthUser, RunningProxyCard and
\* RunningTrainingCard and does not switch the relay on (a lookup that
\* raises is repeated, so no tuple is built from it)
C16_FailedLookupNeverGrants ==
    [][(pc = "call" /\ input_data.card_id > 0 /\ card_details.status # 200) =>
         /\ \A cls \in PoweredStates : ~Entered(cls)'
         /\ ~PowerOnIssued']_vars

C16_Witness ==
    /\ pc = "get_inputs" /\ input_data.card_id > 0
    /\ card_details.status = 500
    /\ state = "IdleUnauthCard" /\ Entered("IdleUnknownCard")

\* C17: one fsm(input_data) makes at most one next_state call of its own and
\* enters AccessComplete at most once
C17_OneTransitionPerTick ==
    /\ Cardinality(Issued("on_tick")) <= 1
    /\ Cardinality({ i \in Issued("enter") :
                       effects[i].cls = "AccessComplete" }) <= 1

TimeoutRuns == timeout_minutes > 0 /\ (now - timeout_start) > timeout_delta
GraceRuns == (now - grace_start) > grace_delta

\* C18: when two rows of a class hold in the same call, the call ends where
\* the first one leads
C18_FirstRowWins ==
    [][pc = "call" =>
         /\ (state = "RunningAuthUser" /\ input_data.card_id <= 0
             /\ TimeoutRuns)
            => state' = "RunningNoCard"
         /\ (state = "RunningNoCard" /\ input_data.card_id > 0
             /\ input_data.card_type # INVALID_CARD /\ GraceRuns)
            => state' = "RunningUnknownCard"
         /\ (state = "RunningTimeout" /\ input_data.button_pressed
             /\ GraceRuns)
            => state' = "RunningUnknownCard"
         /\ (state = "RunningTimeout" /\ ~input_data.button_pressed
             /\ input_data.card_id <= 0 /\ GraceRuns)
            => /\ state' = "IdleNoCard"
               /\ Entered("AccessComplete")'
               /\ ~Entered("IdleAuthCard")']_vars

\* the rows of RunningUnknownCard that keep or resume the session
ProxyRow ==
    /\ input_data.card_type = PROXY_CARD
    /\ allow_proxy = 1 /\ training_id <= 0
AuthRow ==
    input_data.card_type = USER_CARD /\ input_data.card_id = auth_user_id
TraineeRow ==
    /\ input_data.card_type = USER_CARD
    /\ input_data.card_id # auth_user_id
    /\ user_authority_level >= 3 /\ proxy_id <= 0
    /\ (training_id <= 0 \/ training_id = input_data.card_id)
    /\ ~input_data.user_is_authorized

C20_ProxyOnlyWhenAllowed ==
    [][pc = "call" =>
         /\ Entered("RunningProxyCard")'
            => (state = "RunningUnknownCard" /\ ProxyRow)
         /\ (state = "RunningUnknownCard"
             /\ input_data.card_type = PROXY_CARD /\ ~ProxyRow)
            => (state' = "RunningUnauthCard"
                /\ ~Entered("RunningProxyCard")')]_vars

C20_Witness ==
    /\ pc = "get_inputs" /\ effects[1] = Called("RunningUnknownCard")
    /\ input_data.card_type = PROXY_CARD
    /\ allow_proxy = 1 /\ training_id > 0
    /\ state = "RunningUnauthCard"

EntersBefore(i) == { j \in Issued("enter") : j < i }
ClassAt(i) ==
    IF EntersBefore(i) = {} THEN ""
    ELSE effects[CHOOSE j \in EntersBefore(i) :
                    \A k \in EntersBefore(i) : k <= j].cls
AuthUserAttempts ==
    { i \in Issued("log_access_attempt") :
        effects[i].flag /\ ClassAt(i) = "RunningAuthUser" }

\* C22: RunningAuthUser.on_enter logs a successful access attempt, once and
\* for the card read, when the session opens (a call of an idle class);
\* no call of a Running* class, so no re-entry within the session, makes it
\* log another
C22_OneAttemptPerSession ==
    [][pc = "call" =>
         /\ state \in RunningStates => AuthUserAttempts' = {}
         /\ (state \notin RunningStates /\ Entered("RunningAuthUser")')
            => /\ Cardinality(AuthUserAttempts') = 1
               /\ \A i \in AuthUserAttempts' :
                      effects'[i].card = input_data.card_id]_vars

C22_Witness ==
    /\ pc = "get_inputs" /\ state = "RunningAuthUser"
    /\ \E i \in Issued("call") : effects[i].cls = "RunningUnknownCard"
    /\ Entered("RunningAuthUser") /\ Issued("log_access_attempt") = {}

\* the card the running phase was validated for is the one read
SessionCardInReader ==
    /\ input_data.card_id > 0
    /\ IF proxy_id > 0
       THEN /\ input_data.card_id = proxy_id
            /\ input_data.card_type = PROXY_CARD
       ELSE IF training_id > 0
       THEN /\ input_data.card_id = training_id
            /\ input_data.card_type = USER_CARD
            /\ ~input_data.user_is_authorized
       ELSE /\ input_data.card_id = auth_user_id
            /\ input_data.card_type = USER_CARD
SessionClass ==
    IF proxy_id > 0 THEN "RunningProxyCard"
    ELSE IF training_id > 0 THEN "RunningTrainingCard"
    ELSE "RunningAuthUser"
NoSessionLog ==
    /\ Issued("log_access_attempt") = {}
    /\ Issued("log_access_completion") = {}

\* C23: with the session's card read, RunningTimeout called with the button
\* pressed before the grace period is over ends in RunningUnknownCard, and
\* RunningUnknownCard then ends in the powered class of the session with
\* timeout_start at the instant of the call; both with the relay ON and
\* without an access-attempt or completion log
C23_ButtonResumesSession ==
    [][(pc = "call" /\ SessionCardInReader) =>
         /\ (state = "RunningTimeout" /\ input_data.button_pressed
             /\ ~GraceRuns)
            => (state' = "RunningUnknownCard" /\ power' /\ NoSessionLog')
         /\ state = "RunningUnknownCard"
            => (state' = SessionClass /\ timeout_start' = now
                /\ power' /\ NoSessionLog')]_vars

C23_Witness ==
    /\ pc = "get_inputs" /\ state = "RunningUnknownCard"
    /\ \E i \in Issued("call") : effects[i].cls = "RunningTimeout"
    /\ input_data.button_pressed /\ SessionCardInReader /\ power

\* C24: RunningTimeout is entered only by a call of a powered class made
\* while timeout_minutes > 0 and the time since timeout_start exceeds
\* timeout_delta; entering a powered class puts timeout_start at the instant
\* of the call and a powered call without transition leaves it alone
C24_TimeoutOnlyAfterDelta ==
    [][pc = "call" =>
         /\ Entered("RunningTimeout")'
            => (state \in PoweredStates /\ TimeoutRuns)
         /\ (\E cls \in PoweredStates : EndsEnteredIn(cls)')
            => timeout_start' = now
         /\ (state \in PoweredStates /\ Issued("enter")' = {})
            => timeout_start' = timeout_start]_vars

C24_Witness ==
    /\ pc = "get_inputs" /\ state = "RunningTimeout"
    /\ \E i \in Issued("call") : effects[i].cls = "RunningTrainingCard"
    /\ input_data.card_id > 0

Emails ==
    Issued("send_user_email") \cup Issued("send_user_email_proxy")
        \cup Issued("send_user_email_training")

\* C25: a call that enters IdleAuthCard sends one notification; when the
\* ids are those the call started with, it is the proxy one if proxy_id > 0,
\* the training one if training_id > 0, the card-left one otherwise
C25_OneNotification ==
    [][(pc = "call" /\ Entered("IdleAuthCard")') =>
         /\ Cardinality(Emails') = 1
         /\ ~Entered("AccessComplete")'
            => \A i \in Emails' :
                 effects'[i].op =
                   IF proxy_id > 0 THEN "send_user_email_proxy"
                   ELSE IF training_id > 0 THEN "send_user_email_training"
                   ELSE "send_user_email"]_vars

\* C26: when Shutdown has been entered and the program has come to rest in
\* it - the exception of a failed setup has left run(), or the tick
\* dispatched in Shutdown is over - the relay has been switched OFF and
\* log_shutdown_status issued, in a tick with the card ID of that tick
C26_ShutdownEffectsIssued ==
    /\ (pc = "raised" /\ state = "Shutdown")
       => (PowerOffIssued /\ Issued("log_shutdown_status") # {})
    /\ (/\ pc = "get_inputs" /\ state = "Shutdown"
        /\ \E i \in Issued("call") : effects[i].cls = "Shutdown")
       => /\ PowerOffIssued
          /\ \E i \in Issued("log_shutdown_status") :
                 effects[i].card = input_data.card_id

InSetup == pc \in {"construct", "get_equipment_role"}

C28_ShutdownTerminal ==
    [][state = "Shutdown" =>
         /\ state' = "Shutdown"
         /\ pc = "call" => (~running' /\ pc' = "get_inputs")
         /\ (pc = "get_inputs" /\ ~running) => pc' = "done"]_vars

C28_Witness ==
    /\ pc = "get_inputs" /\ state = "Shutdown" /\ ~running
    /\ \E i \in Issued("call") : effects[i].cls = "Shutdown"

IdleStates == {"IdleNoCard", "IdleUnauthCard", "IdleAuthCard"}

\* C29: between two ticks, in a powered class or an idle class the periodic
\* beeping is off: stop_buzzer was issued after the last start_beeping
C29_NoBeepingOutsideGrace ==
    state \in PoweredStates \cup IdleStates => ~beeping

C29_Witness ==
    /\ pc = "get_inputs" /\ state \in PoweredStates /\ ~beeping
    /\ \E i \in Issued("call") : effects[i].cls = "RunningUnknownCard"
    /\ Issued("stop_buzzer") # {}

LookupStep ==
    pc = "get_inputs" /\ pc' = "call" /\ Issued("get_card_details")' # {}

\* C31 as stated: the tuple of a newly read card is never built from a
\* lookup that did not answer 200
C31_FailedLookupRetried ==
    [][LookupStep => card_details'.status = 200]_vars

\* C31 amended: a lookup that raises is repeated, so the response behind a
\* tuple is never one that makes the lookup raise; a non-200 answer is not
\* asked again, the tuple built from it carries the card ID with an invalid
\* type, no authorization and level 0
C31_Non200NotRetried ==
    [][LookupStep =>
         /\ card_details'.status = 200 => ~authorization_raises(card_details')
         /\ card_details'.status # 200
            => /\ input_data'.card_id > 0
               /\ input_data'.card_type = INVALID_CARD
               /\ ~input_data'.user_is_authorized
               /\ input_data'.user_authority_level = 0]_vars

C31_Witness ==
    /\ pc = "call" /\ Issued("get_card_details") # {}
    /\ card_details.status = 500
    /\ input_data.card_id > 0 /\ input_data.card_type = INVALID_CARD

\* C32: auth_user_id never goes from one positive ID to another, and a call
\* of a Running* class enters RunningAuthUser only with the card of
\* auth_user_id
C32_OwnerNeverReplaced ==
    [][/\ (auth_user_id > 0 /\ auth_user_id' > 0)
          => auth_user_id' = auth_user_id
       /\ (pc = "call" /\ state \in RunningStates
           /\ Entered("RunningAuthUser")')
          => input_data.card_id = auth_user_id]_vars

\* another user's authorized card read during a grace period
C32_Witness ==
    /\ pc = "get_inputs" /\ state = "RunningUnauthCard"
    /\ \E i \in Issued("call") : effects[i].cls = "RunningUnknownCard"
    /\ UserAuthorized(input_data)
    /\ auth_user_id > 0 /\ input_data.card_id # auth_user_id

\* C33: between two ticks, in a powered class the card of the last tuple is
\* the card the class was entered with
C33_PoweredCardIsValidated ==
    (pc = "get_inputs" /\ state \in PoweredStates) =>
        input_data.card_id =
            IF state = "RunningProxyCard" THEN proxy_id
            ELSE IF state = "RunningTrainingCard" THEN training_id
            ELSE auth_user_id

\* C34: a call enters Shutdown only from IdleNoCard through IdleUnknownCard,
\* on a shutdown card and with the relay OFF; RunningUnknownCard called with
\* a shutdown card ends the session through AccessComplete in IdleNoCard,
\* relay OFF, with log_access_completion(auth_user_id)
C34_ShutdownOnlyFromIdle ==
    [][pc = "call" =>
         /\ Entered("Shutdown")'
            => /\ state = "IdleNoCard" /\ Entered("IdleUnknownCard")'
               /\ input_data.card_type = SHUTDOWN_CARD
               /\ ~power /\ ~power'
         /\ (state = "RunningUnknownCard"
             /\ input_data.card_type = SHUTDOWN_CARD)
            => /\ state' = "IdleNoCard" /\ Entered("AccessComplete")'
               /\ ~power'
               /\ \E i \in Issued("log_access_completion")' :
                      effects'[i].card = auth_user_id]_vars

\* the shutdown card that ended a session is still in the reader
C34_Witness ==
    /\ pc = "get_inputs" /\ state = "Shutdown" /\ Entered("Shutdown")
    /\ Issued("get_card_details") = {}
    /\ completions >= 1 /\ ~power

====
